---- MODULE Spec2Model ----
(***************************************************************************)
(* Model of src/main.py: the HTTP entry point hunt_and_analyze, the        *)
(* classifier wrapper analyze_with_ai and the sink log_to_bigquery.        *)
(*                                                                         *)
(* Python str values that the code inspects are sequences of one-character *)
(* strings, so that strip, split, startswith, `in` and lower are computed  *)
(* as Python computes them.  Values the code only passes along (repo_name, *)
(* path) are opaque TLA+ strings.                                          *)
(***************************************************************************)
EXTENDS Integers, Sequences, FiniteSets, TLC

VARIABLES pc, query, total_rows, processed_count, count, rows_to_insert,
          verdicts, last, classify_calls, sink_calls, inserts, response,
          wpc, wcontent, wsecret, wwindow, wfail, wsnippet

vars == <<pc, query, total_rows, processed_count, count, rows_to_insert,
          verdicts, last, classify_calls, sink_calls, inserts, response,
          wpc, wcontent, wsecret, wwindow, wfail, wsnippet>>

pipeVars == <<pc, query, total_rows, processed_count, count, rows_to_insert,
              verdicts, last, classify_calls, sink_calls, inserts, response>>

winVars == <<wpc, wcontent, wsecret, wwindow, wfail, wsnippet>>

-----------------------------------------------------------------------------
(* Bounds of the model.                                                    *)

\* most rows the result stream yields in one run
MaxRows == 2

\* longest content string of the context-window specification
MaxContentLen == 4

\* largest window size of the context-window specification
MaxWindow == 2

-----------------------------------------------------------------------------
(* Python str operations.                                                  *)

Min(a, b) == IF a < b THEN a ELSE b

Max(a, b) == IF a > b THEN a ELSE b

\* s[i:j] with 0-based, already clamped bounds 0 <= i, j <= len(s)
Slice(s, i, j) == IF j <= i THEN <<>> ELSE SubSeq(s, i + 1, j)

\* s[:n]
Prefix(s, n) == Slice(s, 0, Min(Len(s), n))

\* s.startswith(p)
StartsWith(s, p) == Len(p) <= Len(s) /\ SubSeq(s, 1, Len(p)) = p

\* s.endswith(p)
EndsWith(s, p) == Len(p) <= Len(s) /\ SubSeq(s, Len(s) - Len(p) + 1, Len(s)) = p

\* the 0-based start offsets at which p occurs in s
Occurrences(s, p) ==
    {i \in 0..(Len(s) - Len(p)) : SubSeq(s, i + 1, i + Len(p)) = p}

\* p in s
Contains(s, p) == Occurrences(s, p) # {}

\* s.find(p): the first occurrence, -1 when there is none
Find(s, p) ==
    IF Occurrences(s, p) = {} THEN -1
    ELSE CHOOSE i \in Occurrences(s, p) : \A j \in Occurrences(s, p) : i <= j

UpperCase == <<"A","B","C","D","E","F","G","H","I","J","K","L","M","N","O","P","Q","R","S","T","U","V","W","X","Y","Z">>

LowerCase == <<"a","b","c","d","e","f","g","h","i","j","k","l","m","n","o","p","q","r","s","t","u","v","w","x","y","z">>

\* the lower-case letter of every upper-case letter
LowerMap ==
    [c \in {UpperCase[i] : i \in 1..Len(UpperCase)} |->
        LowerCase[CHOOSE i \in 1..Len(UpperCase) : UpperCase[i] = c]]

LowerChar(c) == IF c \in DOMAIN LowerMap THEN LowerMap[c] ELSE c

\* s.lower()
Lower(s) == [i \in 1..Len(s) |-> LowerChar(s[i])]

Whitespace == {" ", "\n", "\t", "\r"}

RECURSIVE LStrip(_)
LStrip(s) ==
    IF s # <<>> /\ Head(s) \in Whitespace THEN LStrip(Tail(s)) ELSE s

RECURSIVE RStrip(_)
RStrip(s) ==
    IF s # <<>> /\ s[Len(s)] \in Whitespace
    THEN RStrip(SubSeq(s, 1, Len(s) - 1))
    ELSE s

\* s.strip()
Strip(s) == RStrip(LStrip(s))

\* s.split(sep): never empty, "".split(sep) is [""]
RECURSIVE Split(_, _)
Split(s, sep) ==
    IF \E i \in 1..Len(s) : s[i] = sep
    THEN LET k == CHOOSE i \in 1..Len(s) :
                      s[i] = sep /\ \A j \in 1..(i - 1) : s[j] # sep
         IN  <<SubSeq(s, 1, k - 1)>> \o Split(SubSeq(s, k + 1, Len(s)), sep)
    ELSE <<s>>

\* s.split(":", 1)[1] for an s that holds a colon
AfterFirstColon(s) ==
    LET k == CHOOSE i \in 1..Len(s) : s[i] = ":" /\ \A j \in 1..(i - 1) : s[j] # ":"
    IN  SubSeq(s, k + 1, Len(s))

-----------------------------------------------------------------------------
(* String literals of the source.                                          *)

\* "CONFIDENCE:"
CONFIDENCE_TAG == <<"C","O","N","F","I","D","E","N","C","E",":">>

\* "REASONING:"
REASONING_TAG == <<"R","E","A","S","O","N","I","N","G",":">>

\* "example"
S_example == <<"e","x","a","m","p","l","e">>

\* "test"
S_test == <<"t","e","s","t">>

\* "YOUR_"
S_YOUR == <<"Y","O","U","R","_">>

\* "_HERE"
S_HERE == <<"_","H","E","R","E">>

\* "Quota"
S_Quota == <<"Q","u","o","t","a">>

\* "..."
Ellipsis == <<".",".",".">>

\* "None", the default confidence
S_None == <<"N","o","n","e">>

\* "Parsing error", the default reasoning
S_ParsingError == <<"P","a","r","s","i","n","g"," ","e","r","r","o","r">>

\* "AI response missing reasoning."
S_MissingReasoning == <<"A","I"," ","r","e","s","p","o","n","s","e"," ","m","i","s","s","i","n","g"," ","r","e","a","s","o","n","i","n","g",".">>

\* "high"
S_high == <<"h","i","g","h">>

\* "medium"
S_medium == <<"m","e","d","i","u","m">>

\* "CONFIDENCE: None\nREASONING: Likely placeholder or example value."
PLACEHOLDER_TEXT == <<"C","O","N","F","I","D","E","N","C","E",":"," ","N","o","n","e","\n","R","E","A","S","O","N","I","N","G",":"," ","L","i","k","e","l","y"," ","p","l","a","c","e","h","o","l","d","e","r"," ","o","r"," ","e","x","a","m","p","l","e"," ","v","a","l","u","e",".">>

\* "CONFIDENCE: Low\nREASONING: AI response format error."
FORMAT_ERROR_TEXT == <<"C","O","N","F","I","D","E","N","C","E",":"," ","L","o","w","\n","R","E","A","S","O","N","I","N","G",":"," ","A","I"," ","r","e","s","p","o","n","s","e"," ","f","o","r","m","a","t"," ","e","r","r","o","r",".">>

\* "CONFIDENCE: None\nREASONING: Vertex AI quota exceeded during analysis."
QUOTA_TEXT == <<"C","O","N","F","I","D","E","N","C","E",":"," ","N","o","n","e","\n","R","E","A","S","O","N","I","N","G",":"," ","V","e","r","t","e","x"," ","A","I"," ","q","u","o","t","a"," ","e","x","c","e","e","d","e","d"," ","d","u","r","i","n","g"," ","a","n","a","l","y","s","i","s",".">>

\* "CONFIDENCE: None\nREASONING: Error during AI analysis communication."
COMM_ERROR_TEXT == <<"C","O","N","F","I","D","E","N","C","E",":"," ","N","o","n","e","\n","R","E","A","S","O","N","I","N","G",":"," ","E","r","r","o","r"," ","d","u","r","i","n","g"," ","A","I"," ","a","n","a","l","y","s","i","s"," ","c","o","m","m","u","n","i","c","a","t","i","o","n",".">>

\* characters before and after the match that the context keeps
context_window == 150

\* longest secret_snippet and ai_reasoning a row stores
SNIPPET_LIMIT == 1024

-----------------------------------------------------------------------------
(* Python values: None, a str, or an object of another type.               *)

PyNone == [kind |-> "None", val |-> <<>>]

PyStr(s) == [kind |-> "str", val |-> s]

PyOther == [kind |-> "other", val |-> <<>>]

\* bool(v): None and "" are falsy
Truthy(v) == v.kind = "other" \/ (v.kind = "str" /\ v.val # <<>>)

IsStr(v) == v.kind = "str"

-----------------------------------------------------------------------------
(* analyze_with_ai                                                         *)

\* the same test without .lower(): a case-sensitive substring match
IsPlaceholderCaseSensitive(v) ==
    \/ v.kind = "None"
    \/ /\ v.kind = "str"
       /\ \/ Contains(v.val, S_example)
          \/ Contains(v.val, S_test)
          \/ StartsWith(v.val, S_YOUR)
          \/ EndsWith(v.val, S_HERE)

\* the guard of line 60
IsPlaceholder(v) ==
    \/ v.kind = "None"
    \/ /\ v.kind = "str"
       /\ \/ Contains(Lower(v.val), S_example)
          \/ Contains(Lower(v.val), S_test)
          \/ StartsWith(v.val, S_YOUR)
          \/ EndsWith(v.val, S_HERE)

\* the window without any ellipsis
ContextualSnippetNoEllipsis(code_snippet, secret, window, fails) ==
    IF code_snippet = <<>> \/ secret = <<>> \/ fails THEN secret
    ELSE IF Find(code_snippet, secret) < 0
    THEN Prefix(code_snippet, window * 2) \o Ellipsis
    ELSE LET match_start == Find(code_snippet, secret)
             match_end   == match_start + Len(secret)
             start       == Max(0, match_start - window)
             end         == Min(Len(code_snippet), match_end + window)
         IN  Slice(code_snippet, start, end)

\* lines 64-82: the text around the first occurrence of the secret; `fails`
\* is an exception raised inside the try block
ContextualSnippet(code_snippet, secret, window, fails) ==
    IF code_snippet = <<>> \/ secret = <<>> THEN secret
    ELSE IF fails THEN secret
    ELSE IF Find(code_snippet, secret) < 0
    THEN Prefix(code_snippet, window * 2) \o Ellipsis
    ELSE LET match_start == Find(code_snippet, secret)
             match_end   == match_start + Len(secret)
             start       == Max(0, match_start - window)
             end         == Min(Len(code_snippet), match_end + window)
         IN  (IF start > 0 THEN Ellipsis ELSE <<>>)
             \o Slice(code_snippet, start, end)
             \o (IF end < Len(code_snippet) THEN Ellipsis ELSE <<>>)

\* a check that asks for the CONFIDENCE: tag alone
FormatInvalidConfidenceOnly(analysis_text) ==
    ~Contains(analysis_text, CONFIDENCE_TAG)

\* the test of line 119
FormatInvalid(analysis_text) ==
    \/ ~Contains(analysis_text, CONFIDENCE_TAG)
    \/ ~Contains(analysis_text, REASONING_TAG)

\* lines 110-127: what analyze_with_ai returns for an outcome of
\* gen_model.generate_content.  outcome.kind is "text" (analysis_text is the
\* str outcome.text), "nontext" (analysis_text is not a str: the `in` test
\* raises TypeError) or "raise" (the call raises, str(e) is outcome.text).
ClassifierText(outcome) ==
    CASE outcome.kind = "text" ->
             IF FormatInvalid(outcome.text) THEN FORMAT_ERROR_TEXT ELSE outcome.text
      [] outcome.kind = "raise" ->
             IF Contains(outcome.text, S_Quota) THEN QUOTA_TEXT ELSE COMM_ERROR_TEXT
      [] OTHER -> COMM_ERROR_TEXT

\* analyze_with_ai(code_snippet, potential_secret_value): the returned text,
\* whether generate_content was invoked, and the context put in the prompt
analyze_with_ai(code_snippet, potential_secret_value, outcome, ctx_fails) ==
    IF IsPlaceholder(potential_secret_value)
    THEN [text |-> PLACEHOLDER_TEXT, invoked |-> FALSE, context |-> <<>>]
    ELSE [text    |-> ClassifierText(outcome),
          invoked |-> TRUE,
          context |-> ContextualSnippet(code_snippet, potential_secret_value.val,
                                        context_window, ctx_fails)]

-----------------------------------------------------------------------------
(* hunt_and_analyze: parsing, gate, row                                    *)

\* lines 182-195: confidence and reasoning read from the returned text
ParseAnalysis(ai_analysis) ==
    LET lines == Split(Strip(ai_analysis), "\n")
    IN  [confidence |->
             IF StartsWith(lines[1], CONFIDENCE_TAG)
             THEN Strip(AfterFirstColon(lines[1]))
             ELSE S_None,
         reasoning |->
             IF Len(lines) >= 2 /\ StartsWith(lines[2], REASONING_TAG)
             THEN Strip(AfterFirstColon(lines[2]))
             ELSE IF Len(lines) = 1 THEN S_MissingReasoning
             ELSE S_ParsingError]

\* a gate that lets only "high" through
AcceptedHighOnly(confidence) == Lower(confidence) = S_high

\* line 199
Accepted(confidence) == Lower(confidence) \in {S_high, S_medium}

\* lines 201-208: the row appended for an accepted candidate; scan_timestamp
\* is the wall clock, modelled as a logical clock
NewRowNormalised(repo_name, file_path, potential_secret_value, confidence, reasoning, now) ==
    [repo_name       |-> repo_name,
     file_path       |-> file_path,
     secret_snippet  |-> Prefix(potential_secret_value, SNIPPET_LIMIT),
     ai_confidence   |-> IF Lower(confidence) = S_high THEN <<"H","i","g","h">> ELSE <<"M","e","d","i","u","m">>,
     ai_reasoning    |-> Prefix(reasoning, SNIPPET_LIMIT),
     scan_timestamp  |-> now]

NewRow(repo_name, file_path, potential_secret_value, confidence, reasoning, now) ==
    [repo_name       |-> repo_name,
     file_path       |-> file_path,
     secret_snippet  |-> Prefix(potential_secret_value, SNIPPET_LIMIT),
     ai_confidence   |-> confidence,
     ai_reasoning    |-> Prefix(reasoning, SNIPPET_LIMIT),
     scan_timestamp  |-> now]

\* rows_to_insert with the new row put first
CollectFirst(rows, new_row) == <<new_row>> \o rows

\* line 209: rows_to_insert.append(new_row)
Collect(rows, new_row) == Append(rows, new_row)

\* lines 169 and 174: the skip test and the content fallback
SkipRow(potential_secret_value) ==
    ~Truthy(potential_secret_value) \/ ~IsStr(potential_secret_value)

ContentValue(content_value) ==
    IF ~Truthy(content_value) \/ ~IsStr(content_value) THEN <<>> ELSE content_value.val

\* an except chain whose generic handler comes first
ExceptResponseGenericOnly(exc) ==
    [prefix |-> "Error during execution", processed |-> -1, found |-> -1, status |-> 500]

\* lines 218-228: the handlers, tried in order
ExceptResponse(exc) ==
    CASE exc = "Forbidden" ->
             [prefix |-> "Permission Error", processed |-> -1, found |-> -1, status |-> 500]
      [] exc = "BadRequest" ->
             [prefix |-> "Bad Query Error", processed |-> -1, found |-> -1, status |-> 500]
      [] OTHER ->
             [prefix |-> "Error during execution", processed |-> -1, found |-> -1, status |-> 500]

\* lines 214-216
FinalMessage(processed, rows) ==
    [prefix |-> "Scan complete", processed |-> processed, found |-> Len(rows), status |-> 200]

\* a sink without the try block: the exception of insert_rows_json escapes
SinkRaisesUncaught(insert_outcome) == insert_outcome = "raise"

\* lines 136-145: does log_to_bigquery raise? The except clause catches
\* every exception of the insert
SinkRaises(insert_outcome) == FALSE

\* lines 132-134: log_to_bigquery issues an insert only for a non-empty batch
SinkInserts(rows) == rows # <<>>

-----------------------------------------------------------------------------
(* Inputs: what the query, the classifier and the sink can answer.         *)

\* content and potential_secret values of the rows
SecretLive == <<"s","k","_","l","i","v","e","_","9">>

SecretLower == <<"y","o","u","r","_","k","e","y","_","h","e","r","e">>

Rows ==
    {[repo_name |-> "r1", path |-> "a.env", content |-> PyStr(<<"k","=","x">>),
      potential_secret |-> v] : v \in {PyNone, PyStr(<<>>), PyOther}}
    \cup
    {[repo_name |-> "r1", path |-> "a.env", content |-> PyStr(<<"k","=","x">>),
      potential_secret |-> PyStr(s)] :
         s \in {<<"E","x","A","m","p","l","e","1">>, <<"m","y","_","T","e","s","t","_","k">>, <<"Y","O","U","R","_","K","E","Y">>, <<"K","E","Y","_","H","E","R","E">>}}
    \cup
    {[repo_name |-> "r1", path |-> "cfg.yaml",
      content |-> PyStr(<<"a","p","i","_","k","e","y","=","s","k","_","l","i","v","e","_","9",";">>), potential_secret |-> PyStr(SecretLive)],
     [repo_name |-> "r2", path |-> "cfg.yaml",
      content |-> PyNone, potential_secret |-> PyStr(SecretLower)]}

NL == <<"\n">>

\* texts the classifier can answer
ConfidenceTokens == {<<" ","H","i","g","h">>, <<" ","M","e","d","i","u","m">>, <<" ","L","o","w">>, <<" ","N","o","n","e">>, <<" ","H","I","G","H">>, <<" ","m","e","d","i","u","m">>, <<" ","M","a","y","b","e">>, <<>>}

WellFormedTexts ==
    {CONFIDENCE_TAG \o c \o NL \o REASONING_TAG \o <<" ","l","i","v","e">> : c \in ConfidenceTokens}

OddTexts ==
    {<<>>,
     <<"c","o","n","f","i","d","e","n","c","e",":"," ","h","i","g","h","\n","r","e","a","s","o","n","i","n","g",":"," ","x">>,
     <<"R","E","A","S","O","N","I","N","G",":"," ","l","i","v","e">>,
     <<"C","O","N","F","I","D","E","N","C","E",":"," ","H","i","g","h">>,
     <<"C","O","N","F","I","D","E","N","C","E",":"," ","H","i","g","h"," ","R","E","A","S","O","N","I","N","G",":"," ","x">>,
     <<"C","O","N","F","I","D","E","N","C","E",":","\n","R","E","A","S","O","N","I","N","G",":">>,
     <<"C","O","N","F","I","D","E","N","C","E",":"," ","M","e","d","i","u","m","\n","R","E","A","S","O","N","I","N","G",":">>,
     <<"S","u","r","e","."," ","C","O","N","F","I","D","E","N","C","E",":"," ","H","i","g","h","\n","R","E","A","S","O","N","I","N","G",":"," ","l","i","v","e">>,
     <<"N","o","t","e",":","\n","C","O","N","F","I","D","E","N","C","E",":"," ","H","i","g","h","\n","R","E","A","S","O","N","I","N","G",":"," ","l","i","v","e">>,
     <<" ","\n","C","O","N","F","I","D","E","N","C","E",":"," ","H","i","g","h","\n","R","E","A","S","O","N","I","N","G",":"," ","l","i","v","e","\n">>,
     <<"C","O","N","F","I","D","E","N","C","E",":"," ","H","i","g","h","\n","\n","R","E","A","S","O","N","I","N","G",":"," ","l","i","v","e">>}

Outcomes ==
    {[kind |-> "text", text |-> t] : t \in WellFormedTexts \cup OddTexts}
    \cup {[kind |-> "raise", text |-> m] : m \in {<<"4","2","9"," ","Q","u","o","t","a"," ","e","x","c","e","e","d","e","d">>, <<"5","0","3"," ","u","n","a","v","a","i","l","a","b","l","e">>}}
    \cup {[kind |-> "nontext", text |-> <<>>]}

NoOutcome == [kind |-> "none", text |-> <<>>]

InsertOutcomes == {"ok", "errors", "raise"}

QueryFailures == {"Forbidden", "BadRequest", "Exception"}

NoResponse == [prefix |-> "", processed |-> -1, found |-> -1, status |-> 0]

NoRow == [repo_name |-> "", path |-> "", content |-> PyNone, potential_secret |-> PyNone]

NoLast ==
    [row |-> NoRow, skipped |-> FALSE, invoked |-> FALSE, outcome |-> NoOutcome,
     context |-> <<>>, ai_analysis |-> <<>>, confidence |-> <<>>, reasoning |-> <<>>,
     added |-> 0]

\* the rows that pass the skip test of line 169
AnalysedRows == {row \in Rows : ~SkipRow(row.potential_secret)}

\* lines 173-199: the part of the loop body that depends only on the row and
\* on what the classifier answers: the call of analyze_with_ai, the parse and
\* the gate
LoopBody(row, outcome, ctx_fails) ==
    LET ai      == analyze_with_ai(ContentValue(row.content), row.potential_secret,
                                   outcome, ctx_fails)
        verdict == ParseAnalysis(ai.text)
    IN  [ai |-> ai, verdict |-> verdict, accept |-> Accepted(verdict.confidence)]

\* LoopBody tabulated over the inputs, so that it is computed once per input
LoopBodyTable ==
    [row \in AnalysedRows, outcome \in Outcomes, ctx_fails \in BOOLEAN |->
        LoopBody(row, outcome, ctx_fails)]

-----------------------------------------------------------------------------
(* hunt_and_analyze as a state machine.                                    *)
(*   pc: "start" -> "iterating" -> "done", or "start" -> "done" when the   *)
(*   query raises.                                                         *)
(* History: verdicts (one entry per row of the stream), last (the row just *)
(* processed, with what the classifier answered), classify_calls (calls of *)
(* generate_content), sink_calls (batches handed to log_to_bigquery),      *)
(* inserts (batches handed to insert_rows_json).                           *)

WinIdle ==
    /\ wpc = "idle"
    /\ wcontent = <<>>
    /\ wsecret = <<>>
    /\ wwindow = 0
    /\ wfail = FALSE
    /\ wsnippet = <<>>

PipeIdle ==
    /\ pc = "start"
    /\ query = "none"
    /\ total_rows = 0
    /\ processed_count = 0
    /\ count = 0
    /\ rows_to_insert = <<>>
    /\ verdicts = <<>>
    /\ last = NoLast
    /\ classify_calls = 0
    /\ sink_calls = <<>>
    /\ inserts = <<>>
    /\ response = NoResponse

Init == PipeIdle /\ WinIdle

\* lines 157-162: the query succeeds and its stream holds n rows
QueryOk ==
    /\ pc = "start"
    /\ \E n \in 0..MaxRows : total_rows' = n
    /\ query' = "ok"
    /\ pc' = "iterating"
    /\ UNCHANGED <<processed_count, count, rows_to_insert, verdicts, last,
                   classify_calls, sink_calls, inserts, response>>
    /\ UNCHANGED winVars

\* lines 157-158 raise: one of the handlers of lines 218-228 answers
QueryFails ==
    /\ pc = "start"
    /\ \E exc \in QueryFailures :
          /\ query' = exc
          /\ response' = ExceptResponse(exc)
    /\ pc' = "done"
    /\ UNCHANGED <<total_rows, processed_count, count, rows_to_insert, verdicts,
                   last, classify_calls, sink_calls, inserts>>
    /\ UNCHANGED winVars

\* lines 163-171: a row without a usable potential_secret is counted and skipped
SkipCandidate ==
    /\ pc = "iterating"
    /\ processed_count < total_rows
    /\ \E row \in Rows :
          /\ SkipRow(row.potential_secret)
          /\ processed_count' = processed_count + 1
          /\ verdicts' = Append(verdicts,
                 [has_verdict |-> FALSE, invoked |-> FALSE, confidence |-> <<>>])
          /\ last' = [NoLast EXCEPT !.row = row, !.skipped = TRUE]
    /\ UNCHANGED <<pc, query, total_rows, count, rows_to_insert, classify_calls,
                   sink_calls, inserts, response>>
    /\ UNCHANGED winVars

\* lines 163-210: one pass of the loop body for a row that is analysed
ProcessCandidate ==
    /\ pc = "iterating"
    /\ processed_count < total_rows
    /\ \E row \in AnalysedRows, outcome \in Outcomes, ctx_fails \in BOOLEAN :
          LET body    == LoopBodyTable[row, outcome, ctx_fails]
              ai      == body.ai
              verdict == body.verdict
              new_row == NewRow(row.repo_name, row.path, row.potential_secret.val,
                                verdict.confidence, verdict.reasoning,
                                processed_count + 1)
          IN  /\ processed_count' = processed_count + 1
              /\ classify_calls' = classify_calls + (IF ai.invoked THEN 1 ELSE 0)
              /\ count' = count + (IF body.accept THEN 1 ELSE 0)
              /\ rows_to_insert' =
                     IF body.accept THEN Collect(rows_to_insert, new_row)
                     ELSE rows_to_insert
              /\ verdicts' = Append(verdicts,
                     [has_verdict |-> TRUE, invoked |-> ai.invoked,
                      confidence |-> verdict.confidence])
              /\ last' = [row |-> row, skipped |-> FALSE, invoked |-> ai.invoked,
                          outcome |-> IF ai.invoked THEN outcome ELSE NoOutcome,
                          context |-> ai.context, ai_analysis |-> ai.text,
                          confidence |-> verdict.confidence,
                          reasoning |-> verdict.reasoning,
                          added |-> Len(rows_to_insert') - Len(rows_to_insert)]
    /\ UNCHANGED <<pc, query, total_rows, sink_calls, inserts, response>>
    /\ UNCHANGED winVars

\* lines 212-216 and 130-145: the stream is exhausted, log_to_bigquery runs
\* and the summary is returned
LogAndReturn ==
    /\ pc = "iterating"
    /\ processed_count = total_rows
    /\ sink_calls' = Append(sink_calls, rows_to_insert)
    /\ \E insert_outcome \in InsertOutcomes :
          IF SinkInserts(rows_to_insert)
          THEN /\ inserts' = Append(inserts,
                      [rows |-> rows_to_insert, outcome |-> insert_outcome])
               /\ response' = IF SinkRaises(insert_outcome)
                              THEN ExceptResponse("Exception")
                              ELSE FinalMessage(processed_count, rows_to_insert)
          ELSE /\ insert_outcome = "ok"
               /\ inserts' = inserts
               /\ response' = FinalMessage(processed_count, rows_to_insert)
    /\ pc' = "done"
    /\ UNCHANGED <<query, total_rows, processed_count, count, rows_to_insert,
                   verdicts, last, classify_calls>>
    /\ UNCHANGED winVars

Next ==
    \/ QueryOk
    \/ QueryFails
    \/ SkipCandidate
    \/ ProcessCandidate
    \/ LogAndReturn

Spec == Init /\ [][Next]_vars

-----------------------------------------------------------------------------
(* The context window as a function of its inputs: content and secret are  *)
(* drawn from short strings and the window from small sizes, where the     *)
(* source fixes the window at context_window.                              *)

WinAlphabet == {"a", "b"}

StringsUpTo(n) == UNION {[1..k -> WinAlphabet] : k \in 0..n}

WinSecrets == {<<"a">>, <<"a","b">>, <<"b","a">>}

\* "AAAA" + "SECRET123" + "BBBB"
ExampleContent == <<"A","A","A","A","S","E","C","R","E","T","1","2","3","B","B","B","B">>

ExampleSecret == <<"S","E","C","R","E","T","1","2","3">>

WinInit ==
    /\ PipeIdle
    /\ wpc = "input"
    /\ \/ /\ wcontent \in StringsUpTo(MaxContentLen)
          /\ wsecret \in WinSecrets
          /\ wwindow \in 0..MaxWindow
       \/ /\ wcontent = ExampleContent
          /\ wsecret = ExampleSecret
          /\ wwindow = 2
    /\ wfail \in BOOLEAN
    /\ wsnippet = <<>>

BuildContext ==
    /\ wpc = "input"
    /\ wsnippet' = ContextualSnippet(wcontent, wsecret, wwindow, wfail)
    /\ wpc' = "built"
    /\ UNCHANGED <<wcontent, wsecret, wwindow, wfail>>
    /\ UNCHANGED pipeVars

WinNext == BuildContext

WinSpec == WinInit /\ [][WinNext]_vars

-----------------------------------------------------------------------------
(* Properties.                                                             *)

\* the candidates (by their position in the stream) whose Verdict passes
\* the gate as the specification states it
GateIdx ==
    {i \in 1..Len(verdicts) :
        /\ verdicts[i].has_verdict
        /\ Lower(verdicts[i].confidence) \in {S_high, S_medium}}

\* the Findings of the batch that come from candidate i
FindingsOf(i) == {k \in 1..Len(rows_to_insert) : rows_to_insert[k].scan_timestamp = i}

\* the placeholder rules as the specification states them
MatchesPlaceholderRule(s) ==
    \/ \E i \in 0..Len(s) : \E n \in {4, 7} :
          /\ i + n <= Len(s)
          /\ Lower(SubSeq(s, i + 1, i + n)) \in {S_example, S_test}
    \/ (Len(s) >= 5 /\ SubSeq(s, 1, 5) = S_YOUR)
    \/ (Len(s) >= 5 /\ SubSeq(s, Len(s) - 4, Len(s)) = S_HERE)

\* a candidate has been analysed and `last` describes it
LastAnalysed == last.row # NoRow /\ ~last.skipped

\* the classifier answered a text for the last candidate
LastAnswered == LastAnalysed /\ last.invoked /\ last.outcome.kind = "text"

\* the first line of the answer, as the parser sees it
FirstLine(text) == Split(Strip(text), "\n")[1]

S_Low == <<"L","o","w">>

S_High == <<"H","i","g","h">>

S_Medium == <<"M","e","d","i","u","m">>

S_FormatError == <<"A","I"," ","r","e","s","p","o","n","s","e"," ","f","o","r","m","a","t"," ","e","r","r","o","r",".">>

S_LikelyPlaceholder == <<"L","i","k","e","l","y"," ","p","l","a","c","e","h","o","l","d","e","r"," ","o","r"," ","e","x","a","m","p","l","e"," ","v","a","l","u","e",".">>

\* C1: the batch holds exactly one Finding for each candidate whose Verdict
\* confidence lower-cases to "high" or "medium" and none for any other
\* candidate; every candidate is counted in processed_count, the accepted
\* count is the batch size, and the summary of a run reports both numbers.
C1_BatchMatchesGate ==
    /\ processed_count = Len(verdicts)
    /\ count = Len(rows_to_insert)
    /\ count <= processed_count
    /\ \A k \in 1..Len(rows_to_insert) :
          rows_to_insert[k].scan_timestamp \in 1..Len(verdicts)
    /\ \A i \in 1..Len(verdicts) :
          Cardinality(FindingsOf(i)) = IF i \in GateIdx THEN 1 ELSE 0
    /\ Len(rows_to_insert) = Cardinality(GateIdx)
    /\ (pc = "done" /\ query = "ok") =>
          /\ response.processed = Len(verdicts)
          /\ response.found = Cardinality(GateIdx)

\* C1 witness: a finished run with one accepted candidate (a "medium" or
\* "HIGH" answer) and one candidate rejected by the gate
C1_Witness ==
    /\ pc = "done"
    /\ query = "ok"
    /\ Len(verdicts) = 2
    /\ 1 \in GateIdx
    /\ verdicts[1].confidence \in {<<"m","e","d","i","u","m">>, <<"H","I","G","H">>}
    /\ verdicts[2].has_verdict
    /\ 2 \notin GateIdx
    /\ response.processed = 2
    /\ response.found = 1

\* the secrets of the rows that match a placeholder rule
RuleSecrets ==
    {s \in {row.potential_secret.val : row \in Rows} : MatchesPlaceholderRule(s)}

\* C2: a candidate whose secret matches a placeholder rule never reaches
\* generate_content, gets the Verdict {None, "Likely placeholder or example
\* value."} and adds no Finding; generate_content is called once for every
\* other analysed candidate and for no one else.
C2_PlaceholderNeverClassified ==
    /\ (LastAnalysed /\ last.row.potential_secret.val \in RuleSecrets) =>
          /\ ~last.invoked
          /\ ~verdicts[Len(verdicts)].invoked
          /\ last.confidence = S_None
          /\ last.reasoning = S_LikelyPlaceholder
          /\ last.added = 0
          /\ FindingsOf(Len(verdicts)) = {}
    /\ (LastAnalysed /\ last.row.potential_secret.val \notin RuleSecrets) =>
          /\ last.invoked
          /\ verdicts[Len(verdicts)].invoked
    /\ classify_calls = Cardinality({i \in 1..Len(verdicts) : verdicts[i].invoked})

\* C2 witness: a mixed-case "ExAmple1" has been processed after a candidate
\* that did reach the classifier
C2_Witness ==
    /\ Len(verdicts) = 2
    /\ LastAnalysed
    /\ last.row.potential_secret.val = <<"E","x","A","m","p","l","e","1">>
    /\ classify_calls = 1

\* C3: once the query has succeeded the run cannot fail: until it is done a
\* step is always possible, every step of the loop processes one more row of
\* the stream, and the run ends with the summary and status 200 after
\* processing every row, whatever the classifier and the insert did; status
\* 500 comes from the query step alone.
C3_RunCannotFailAfterQuery ==
    /\ [](query = "ok" =>
             /\ processed_count <= total_rows
             /\ pc = "done" \/ ENABLED Next
             /\ pc = "done" =>
                   /\ response.status = 200
                   /\ response.prefix = "Scan complete"
                   /\ processed_count = total_rows
                   /\ response.processed = total_rows)
    /\ [](response.status = 500 => query \in QueryFailures /\ processed_count = 0)
    /\ [][pc = "iterating" =>
             \/ pc' = "iterating" /\ processed_count' = processed_count + 1
             \/ pc' = "done" /\ processed_count = total_rows]_vars

\* C3 witness: a finished run with status 200 whose classifier call raised
\* and whose insert raised
C3_Witness ==
    /\ pc = "done"
    /\ response.status = 200
    /\ processed_count = 2
    /\ last.outcome.kind = "raise"
    /\ last.reasoning = <<"V","e","r","t","e","x"," ","A","I"," ","q","u","o","t","a"," ","e","x","c","e","e","d","e","d"," ","d","u","r","i","n","g"," ","a","n","a","l","y","s","i","s",".">>
    /\ Len(inserts) = 1
    /\ inserts[1].outcome = "raise"

\* C4: when the query raises, the run is over at once: nothing is processed,
\* the classifier and the sink are never called, and the answer is status
\* 500 with a message that names the kind of failure.
C4_QueryFailureAborts ==
    query \in QueryFailures =>
       /\ pc = "done"
       /\ processed_count = 0
       /\ verdicts = <<>>
       /\ classify_calls = 0
       /\ sink_calls = <<>>
       /\ inserts = <<>>
       /\ rows_to_insert = <<>>
       /\ response.status = 500
       /\ response.prefix =
             CASE query = "Forbidden" -> "Permission Error"
               [] query = "BadRequest" -> "Bad Query Error"
               [] OTHER -> "Error during execution"

\* C4 witness: the query was refused as malformed
C4_Witness == query = "BadRequest" /\ pc = "done" /\ response.status = 500

C6_OneLineKeepsConfidence ==
    (/\ LastAnswered
     /\ Len(Split(Strip(last.outcome.text), "\n")) = 1
     /\ StartsWith(FirstLine(last.outcome.text), CONFIDENCE_TAG)) =>
        /\ last.confidence = Strip(AfterFirstColon(FirstLine(last.outcome.text)))
        /\ last.reasoning = S_MissingReasoning
        /\ (last.confidence \in {S_High, S_Medium} => last.added = 1)

\* C7 as stated: every Finding records exactly "High" or exactly "Medium".
C7_ConfidenceNormalised ==
    \A k \in 1..Len(rows_to_insert) :
        rows_to_insert[k].ai_confidence \in {S_High, S_Medium}

\* C7 amended: every Finding records the confidence token as the classifier
\* wrote it, and that token lower-cases to "high" or "medium".
C7_ConfidenceVerbatim ==
    \A k \in 1..Len(rows_to_insert) :
        /\ Lower(rows_to_insert[k].ai_confidence) \in {S_high, S_medium}
        /\ rows_to_insert[k].ai_confidence =
              verdicts[rows_to_insert[k].scan_timestamp].confidence
        /\ (k = Len(rows_to_insert) /\ LastAnswered /\ last.added = 1) =>
              rows_to_insert[k].ai_confidence =
                 Strip(AfterFirstColon(FirstLine(last.outcome.text)))

\* C7 witness: the classifier answered "HIGH" and the Finding records "HIGH"
C7_Witness ==
    /\ LastAnswered
    /\ last.added = 1
    /\ rows_to_insert[Len(rows_to_insert)].ai_confidence = <<"H","I","G","H">>

\* C8 as stated: the Verdict that reaches the gate never has an empty
\* confidence or an empty reasoning.
C8_VerdictNeverEmpty ==
    LastAnalysed => (last.confidence # <<>> /\ last.reasoning # <<>>)

\* C10: log_to_bigquery is called once, after the last row of the stream and
\* never while rows remain, with the whole batch in stream order; an insert
\* is issued only for a non-empty batch, and an empty batch is no error.
C10_SinkOnceWithFullBatch ==
    /\ Len(sink_calls) <= 1
    /\ (pc = "iterating" => sink_calls = <<>>)
    /\ (query = "ok" /\ pc = "done") =>
          /\ Len(sink_calls) = 1
          /\ sink_calls[1] = rows_to_insert
          /\ processed_count = total_rows
          /\ Len(rows_to_insert) = Cardinality(GateIdx)
          /\ \A k \in 1..Len(rows_to_insert) : \A j \in 1..Len(rows_to_insert) :
                k < j => rows_to_insert[k].scan_timestamp < rows_to_insert[j].scan_timestamp
          /\ inserts = IF rows_to_insert = <<>> THEN <<>>
                       ELSE <<[rows |-> rows_to_insert, outcome |-> inserts[1].outcome]>>
          /\ response.status # 500

\* C10 witness: a finished run whose two candidates were both accepted
C10_Witness ==
    /\ pc = "done"
    /\ Len(sink_calls) = 1
    /\ Len(sink_calls[1]) = 2
    /\ Len(inserts) = 1

-----------------------------------------------------------------------------
(* Properties of the context window (WinSpec).                             *)

\* the first occurrence of the secret in the content, 0-based
FirstMatch == CHOOSE i \in Occurrences(wcontent, wsecret) :
                  \A j \in Occurrences(wcontent, wsecret) : i <= j

\* the secret occurs and the window has been built without a failure
WinBuilt ==
    /\ wpc = "built"
    /\ ~wfail
    /\ wcontent # <<>>
    /\ Occurrences(wcontent, wsecret) # {}

\* the characters of the content from offset lo (0-based) up to hi, excluded
Chars(lo, hi) == [i \in 1..(hi - lo) |-> wcontent[lo + i]]

\* C9 as stated: a window that fits inside the content is that slice with no
\* ellipsis; "..." is put in front only when the left end was clamped and
\* behind only when the right end was clamped.
C9_EllipsisOnlyWhenClamped ==
    WinBuilt =>
       LET lo == FirstMatch - wwindow
           hi == FirstMatch + Len(wsecret) + wwindow
       IN  /\ (lo >= 0 /\ hi <= Len(wcontent)) => wsnippet = Chars(lo, hi)
           /\ StartsWith(wsnippet, Ellipsis) => lo < 0
           /\ EndsWith(wsnippet, Ellipsis) => hi > Len(wcontent)
           /\ (wcontent = ExampleContent /\ wsecret = ExampleSecret /\ wwindow = 2)
                 => wsnippet = <<"A","A","S","E","C","R","E","T","1","2","3","B","B">>

\* C9 amended: "..." is put in front exactly when the window starts after the
\* first character of the content and behind exactly when it ends before the
\* last one: a window that fits strictly inside gets both, a match at the
\* start of the content gets none in front, a match at its end none behind;
\* the window is the one around the first occurrence.
C9_EllipsisWhenTextOmitted ==
    WinBuilt =>
       LET lo == IF FirstMatch - wwindow > 0 THEN FirstMatch - wwindow ELSE 0
           hi == IF FirstMatch + Len(wsecret) + wwindow < Len(wcontent)
                 THEN FirstMatch + Len(wsecret) + wwindow ELSE Len(wcontent)
       IN  /\ wsnippet = (IF lo > 0 THEN Ellipsis ELSE <<>>)
                         \o Chars(lo, hi)
                         \o (IF hi < Len(wcontent) THEN Ellipsis ELSE <<>>)
           /\ FirstMatch = 0 => ~StartsWith(wsnippet, Ellipsis)
           /\ FirstMatch + Len(wsecret) = Len(wcontent) => ~EndsWith(wsnippet, Ellipsis)
           /\ (wcontent = ExampleContent /\ wsecret = ExampleSecret /\ wwindow = 2)
                 => wsnippet = <<".",".",".","A","A","S","E","C","R","E","T","1","2","3","B","B",".",".",".">>

\* C9 witness: the example of the specification has been built
C9_Witness ==
    /\ wpc = "built"
    /\ ~wfail
    /\ wcontent = ExampleContent
    /\ wsecret = ExampleSecret
    /\ wwindow = 2
    /\ wsnippet = <<".",".",".","A","A","S","E","C","R","E","T","1","2","3","B","B",".",".",".">>
====
